---------------------------- MODULE Spec2Model ----------------------------
(***************************************************************************)
(* Model of the BPBM malacology image intake pipeline (src/main.py,        *)
(* src/utils.py): the staging-sheet batch loop, the per-row classifier and *)
(* path builder, the specimen lookups, the taxonomy resolver, the          *)
(* Achatinellidae subfamily classifier and the folder-name sanitizer.      *)
(*                                                                         *)
(* Conventions.  A Python str is a sequence of characters, each character  *)
(* a one-character TLA+ string; a character outside ASCII is written as    *)
(* its code point ("U+00F1").  Python's None is the value None below.  A   *)
(* filesystem path is the sequence of the segments handed to os.path.join. *)
(* SQL comparisons are modelled as exact equality of the stored text, and  *)
(* cursor.fetchone() as the first row of the result in occid order.        *)
(***************************************************************************)
EXTENDS Integers, Sequences, FiniteSets, TLC

(***************************************************************************)
(* Text                                                                    *)
(***************************************************************************)

\* Python's None.  It is never equal to a str: no character is "<None>".
None ==
    <<"<None>">>

\* str(None), as an f-string formats it.
sNone ==
    <<"N","o","n","e">>

\* Python truthiness of a value that is None or a str.
Truthy(x) ==
    x # None /\ x # <<>>

\* f"{x}" for a value that is None or a str.
Fmt(x) ==
    IF x = None THEN sNone ELSE x

RECURSIVE Flatten(_)
\* "".join(parts)
Flatten(parts) ==
    IF parts = <<>> THEN <<>> ELSE Head(parts) \o Flatten(Tail(parts))

\* s.replace(a, b) for a one-character a and a replacement text b.
Replace(s, a, b) ==
    Flatten([i \in 1..Len(s) |-> IF s[i] = a THEN b ELSE <<s[i]>>])

RECURSIVE LStripChars(_, _)
\* s.lstrip(chars): drops leading characters while they belong to the SET chars.
LStripChars(s, chars) ==
    IF s # <<>> /\ Head(s) \in chars THEN LStripChars(Tail(s), chars) ELSE s

RECURSIVE RStripChars(_, _)
RStripChars(s, chars) ==
    IF s # <<>> /\ s[Len(s)] \in chars
    THEN RStripChars(SubSeq(s, 1, Len(s) - 1), chars)
    ELSE s

Whitespace ==
    {" "}

\* s.strip()
Strip(s) ==
    RStripChars(LStripChars(s, Whitespace), Whitespace)

\* sub in s  (substring containment)
Contains(sub, s) ==
    \E i \in 0..(Len(s) - Len(sub)) : SubSeq(s, i + 1, i + Len(sub)) = sub

\* s.split(" ")[0]
FirstToken(s) ==
    IF \E i \in 1..Len(s) : s[i] = " "
    THEN LET k == CHOOSE i \in 1..Len(s) : s[i] = " " /\ \A j \in 1..(i - 1) : s[j] # " "
         IN  SubSeq(s, 1, k - 1)
    ELSE s

(***************************************************************************)
(* Folder Name Sanitizer: utils.clean_folder_name                          *)
(***************************************************************************)

Lower ==
    {"a","b","c","d","e","f","g","h","i","j","k","l","m",
     "n","o","p","q","r","s","t","u","v","w","x","y","z"}

Upper ==
    {"A","B","C","D","E","F","G","H","I","J","K","L","M",
     "N","O","P","Q","R","S","T","U","V","W","X","Y","Z"}

Digit ==
    {"0","1","2","3","4","5","6","7","8","9"}

\* The code points outside ASCII that the model's texts use:
\* U+00F1 n with tilde, U+0303 combining tilde, U+00F8 o with stroke,
\* U+00A0 no-break space, U+FB01 the ligature fi.
NonAscii ==
    {"U+00F1", "U+0303", "U+00F8", "U+00A0", "U+FB01"}

\* unicodedata.normalize('NFKD', c) of one character.
NFKD(c) ==
    CASE c = "U+00F1" -> <<"n", "U+0303">>
      [] c = "U+00A0" -> <<" ">>
      [] c = "U+FB01" -> <<"f", "i">>
      [] OTHER -> <<c>>

\* unicodedata.normalize('NFKD', name)
Normalize(name) ==
    Flatten([i \in 1..Len(name) |-> NFKD(name[i])])

\* .encode('ASCII', 'ignore').decode('utf-8'): characters outside ASCII are dropped.
AsciiIgnore(name) ==
    SelectSeq(name, LAMBDA c : c \notin NonAscii)

\* re.sub(r'[^a-zA-Z0-9_]', '', name)
KeepWordChars(name) ==
    SelectSeq(name, LAMBDA c : c \in Lower \cup Upper \cup Digit \cup {"_"})

\* A slip of clean_folder_name: the final regular-expression pass is left out.
clean_folder_name_noregex(name) ==
    IF ~Truthy(name) THEN None
    ELSE Replace(AsciiIgnore(Normalize(name)), " ", <<"_">>)

clean_folder_name(name) ==
    IF ~Truthy(name) THEN None
    ELSE KeepWordChars(Replace(AsciiIgnore(Normalize(name)), " ", <<"_">>))

(***************************************************************************)
(* Subfamily Classifier: utils.get_achat_subfamily                         *)
(***************************************************************************)

sAchatinellinae ==
    <<"A","c","h","a","t","i","n","e","l","l","i","n","a","e">>
sAuriculellinae ==
    <<"A","u","r","i","c","u","l","e","l","l","i","n","a","e">>
sTornatellidinae ==
    <<"T","o","r","n","a","t","e","l","l","i","d","i","n","a","e">>
sTornatellininae ==
    <<"T","o","r","n","a","t","e","l","l","i","n","i","n","a","e">>
sPacificellinae ==
    <<"P","a","c","i","f","i","c","e","l","l","i","n","a","e">>

\* The subfamilies dict, in insertion order (the order Python iterates it in).
subfamilies ==
    << [subfamily |-> sAchatinellinae,
        genera |-> << <<"A","c","h","a","t","i","n","e","l","l","a">>, <<"N","e","w","c","o","m","b","i","a">>, <<"P","a","r","t","u","l","i","n","a">>, <<"P","e","r","d","i","c","e","l","l","a">> >>],
       [subfamily |-> sAuriculellinae,
        genera |-> << <<"A","u","r","i","c","u","l","e","l","l","a">>, <<"G","u","l","i","c","k","i","a">> >>],
       [subfamily |-> sTornatellidinae,
        genera |-> << <<"P","h","i","l","o","p","o","a">>, <<"T","o","r","n","a","t","e","l","l","a","r","i","a">>, <<"T","o","r","n","a","t","e","l","l","i","d","e","s">> >>],
       [subfamily |-> sTornatellininae,
        genera |-> << <<"E","l","a","s","m","i","a","s">> >>],
       [subfamily |-> sPacificellinae,
        genera |-> << <<"L","a","m","e","l","l","i","d","e","a">>, <<"P","a","c","i","f","i","c","e","l","l","a">>, <<"T","o","r","n","a","t","e","l","l","i","n","o","p","s">> >> ] >>

\* any(genus in sciname for genus in genera)
AnyGenusIn(genera, sciname) ==
    \E g \in 1..Len(genera) : Contains(genera[g], sciname)

\* A slip of get_achat_subfamily: the tables are walked from the last to the first.
get_achat_subfamily_reversed(sciname) ==
    IF \E k \in 1..Len(subfamilies) : AnyGenusIn(subfamilies[k].genera, sciname)
    THEN LET k == CHOOSE i \in 1..Len(subfamilies) :
                    /\ AnyGenusIn(subfamilies[i].genera, sciname)
                    /\ \A j \in (i + 1)..Len(subfamilies) :
                          ~AnyGenusIn(subfamilies[j].genera, sciname)
         IN  subfamilies[k].subfamily
    ELSE None

get_achat_subfamily(sciname) ==
    IF \E k \in 1..Len(subfamilies) : AnyGenusIn(subfamilies[k].genera, sciname)
    THEN LET k == CHOOSE i \in 1..Len(subfamilies) :
                    /\ AnyGenusIn(subfamilies[i].genera, sciname)
                    /\ \A j \in 1..(i - 1) :
                          ~AnyGenusIn(subfamilies[j].genera, sciname)
         IN  subfamilies[k].subfamily
    ELSE None

(***************************************************************************)
(* The collection database (read-only to this program).  One fixed         *)
(* snapshot whose keys cover zero, one and several matches, records with   *)
(* NULL columns, two collections, and a specimen pointing at no occurrence.*)
(***************************************************************************)

sAchatinellidae ==
    <<"A","c","h","a","t","i","n","e","l","l","i","d","a","e">>
sAmastridae ==
    <<"A","m","a","s","t","r","i","d","a","e">>
sGastropoda ==
    <<"G","a","s","t","r","o","p","o","d","a">>
sBivalvia ==
    <<"B","i","v","a","l","v","i","a">>

\* One omoccurrences row.
OccRow(occid, collid, cat, family, sciname, idq, box, fieldno, geo) ==
    [occid |-> occid, collid |-> collid, catalognumber |-> cat, family |-> family,
     sciname |-> sciname, identificationQualifier |-> idq, boxnumber |-> box,
     fieldnumber |-> fieldno, country |-> geo[1], stateProvince |-> geo[2],
     island |-> geo[3], municipality |-> geo[4], locality |-> geo[5],
     typestatus |-> None]

\* Table omoccurrences, in occid order.
omoccurrences ==
    << OccRow(1, 1, <<"1","2">>, sAchatinellidae, <<"A","c","h","a","t","i","n","e","l","l","a"," ","m","u","s","t","e","l","i","n","a">>, <<"c","f",".">>, <<"7">>, <<"F","1">>,
              <<<<"U","S","A">>, <<"H","a","w","a","i","i">>, <<"O","a","h","u">>, None, <<"W","a","i","a","n","a","e"," ","M","t","s">>>>),
       OccRow(2, 1, <<"4","5">>, None, sGastropoda, None, None, <<"F","2">>,
              <<<<"U","S","A">>, None, None, <<"H","o","n","o","l","u","l","u">>, None>>),
       OccRow(3, 1, <<"B","7">>, sAmastridae, <<"A","m","a","s","t","r","a"," ","s","p">>, <<>>, <<"8">>, <<"F","3">>,
              <<<<"U","S","A">>, <<"H","a","w","a","i","i">>, None, None, None>>),
       OccRow(4, 1, <<"8","8">>, sAmastridae, <<"A","m","a","s","t","r","a">>, None, <<"9">>, <<"F","4">>,
              <<<<"M","e","x","i","c","o">>, <<"Y","u","c","a","t","a","U+00F1">>, None, <<"M","e","r","i","d","a">>, <<"K","m"," ","5">>>>),
       OccRow(5, 1, <<"8","8">>, sAmastridae, <<"A","m","a","s","t","r","a">>, None, <<"9">>, None,
              <<None, None, None, None, None>>),
       OccRow(6, 1, None, None, <<"L","a","m","i","n","e","l","l","a">>, None, <<"6">>, None,
              <<None, None, None, None, None>>),
       OccRow(7, 2, <<"1","2">>, sAmastridae, <<"A","m","a","s","t","r","a">>, None, None, None,
              <<None, None, None, None, None>>),
       OccRow(8, 1, <<"4","6">>, None, sBivalvia, None, None, None,
              <<None, None, None, None, None>>),
       OccRow(9, 1, <<"5","0">>, sAchatinellidae, <<"E","l","a","s","m","i","a","s"," ","G","u","l","i","c","k","i","a">>, <<"a","f","f",".">>, <<"5">>, None,
              <<None, None, None, None, None>>),
       OccRow(10, 1, <<"5","1">>, sAchatinellidae, sAchatinellidae, None, <<"4">>, None,
              <<None, None, None, None, None>>),
       OccRow(11, 1, <<"5","2">>, sAmastridae, None, None, <<"3">>, None,
              <<None, None, None, None, None>>),
       OccRow(12, 1, None, None, None, None, None, <<"F","5">>,
              <<<<"U","S","A">>, <<"H","a","w","a","i","i">>, None, <<"?">>, <<"!","!">>>>) >>

\* Table pilsbry.spcollectionspecimen, in row order.
spcollectionspecimen ==
    << [specimennumber |-> <<"A","1">>, occid |-> 1, specimenid |-> 101],
       [specimennumber |-> <<"A","2">>, occid |-> 2, specimenid |-> 102],
       [specimennumber |-> <<"A","3">>, occid |-> 3, specimenid |-> 103],
       [specimennumber |-> <<"A","6">>, occid |-> 6, specimenid |-> 106],
       [specimennumber |-> <<"A","8">>, occid |-> 8, specimenid |-> 108],
       [specimennumber |-> <<"A","9">>, occid |-> 99, specimenid |-> 109],
       [specimennumber |-> <<"D","1">>, occid |-> 3, specimenid |-> 111],
       [specimennumber |-> <<"D","1">>, occid |-> 4, specimenid |-> 112],
       [specimennumber |-> <<"C","1">>, occid |-> 9, specimenid |-> 113],
       [specimennumber |-> <<"C","2">>, occid |-> 10, specimenid |-> 114],
       [specimennumber |-> <<"C","3">>, occid |-> 11, specimenid |-> 115] >>

\* A query that returned no row (cursor.fetchone() is None), or a lookup that
\* returned None.
NoRow ==
    [none |-> TRUE]

\* SELECT ... WHERE is SelectSeq: the rows of a table that satisfy the clause,
\* in table order.

\* cursor.fetchone() on a result: its first row, or None.
FetchOne(result) ==
    IF result = <<>> THEN NoRow ELSE Head(result)

\* The columns a SELECT names.
Columns(rec, cols) ==
    [c \in cols |-> rec[c]]

SpecimenColumns ==
    {"occid", "family", "sciname", "identificationQualifier", "catalognumber",
     "fieldnumber", "country", "stateProvince", "island", "locality", "typestatus"}

CaptiveColumns ==
    {"occid", "family", "sciname", "identificationQualifier", "typestatus",
     "fieldnumber", "country", "stateProvince", "island", "locality", "boxnumber"}

FieldColumns ==
    {"country", "stateProvince", "island", "municipality", "locality"}

(***************************************************************************)
(* Specimen Lookup.  Each lookup yields what it returns (value) and what   *)
(* it reports in the log (outcome): "Multiple records found" is            *)
(* AmbiguousMatch, "No matching record found" is NotFound.                 *)
(***************************************************************************)

\* The shared shape of the three guarded lookups: COUNT(*), the two early
\* returns, then the SELECT and fetchone().
Guarded(fn, key, matches, cols) ==
    LET count == Len(matches)
    IN  IF count > 1
        THEN [fn |-> fn, key |-> key, count |-> count,
              outcome |-> "AmbiguousMatch", value |-> NoRow]
        ELSE IF count = 0
        THEN [fn |-> fn, key |-> key, count |-> count,
              outcome |-> "NotFound", value |-> NoRow]
        ELSE [fn |-> fn, key |-> key, count |-> count,
              outcome |-> "Found", value |-> Columns(FetchOne(matches), cols)]

\* A slip of get_occid_by_specimen_number: the ambiguity guard is dropped, so
\* the first of several matching rows is returned.
get_occid_by_specimen_number_first(specimennumber) ==
    LET matches == SelectSeq(spcollectionspecimen,
                          LAMBDA r : r.specimennumber = specimennumber)
    IN  IF Len(matches) = 0
        THEN [fn |-> "specimennumber", key |-> specimennumber, count |-> 0,
              outcome |-> "NotFound", value |-> NoRow]
        ELSE [fn |-> "specimennumber", key |-> specimennumber, count |-> Len(matches),
              outcome |-> "Found",
              value |-> Columns(FetchOne(matches), {"occid", "specimenid"})]

get_occid_by_specimen_number(specimennumber) ==
    Guarded("specimennumber", specimennumber,
            SelectSeq(spcollectionspecimen, LAMBDA r : r.specimennumber = specimennumber),
            {"occid", "specimenid"})

get_specimen_info_by_occid(occid) ==
    LET result == SelectSeq(omoccurrences, LAMBDA r : r.occid = occid)
    IN  IF result = <<>> THEN NoRow ELSE Columns(FetchOne(result), SpecimenColumns)

\* The characters of the argument of lstrip("BPBM").
PrefixChars ==
    {"B", "P", "M"}

get_specimen_info_by_catalog_number(catalognumber) ==
    LET cat_num == LStripChars(catalognumber, PrefixChars)
    IN  Guarded("catalognumber", catalognumber,
                SelectSeq(omoccurrences,
                       LAMBDA r : r.collid = 1 /\ r.catalognumber = cat_num),
                SpecimenColumns)

get_captive_info(boxnumber) ==
    Guarded("boxnumber", boxnumber,
            SelectSeq(omoccurrences, LAMBDA r : r.boxnumber = boxnumber),
            CaptiveColumns)

get_field_info(fieldnumber) ==
    LET result == SelectSeq(omoccurrences, LAMBDA r : r.fieldnumber = fieldnumber)
    IN  IF result = <<>> THEN NoRow ELSE Columns(FetchOne(result), FieldColumns)

\* Returns <<family, sciname, subfamily>>; raises AttributeError when the
\* record's sciname is NULL (None has no replace), which ExtractRaises tells.
ExtractRaises(specimen_info) ==
    specimen_info # NoRow /\ specimen_info.sciname = None

extract_taxonomy_info(specimen_info) ==
    IF specimen_info = NoRow THEN <<None, None, None>>
    ELSE LET family == specimen_info.family
             sciname == Replace(specimen_info.sciname, " ", <<"_">>)
             subfamily == IF family = sAchatinellidae
                          THEN get_achat_subfamily(sciname) ELSE None
         IN  <<family, sciname, subfamily>>

(***************************************************************************)
(* Taxonomy Resolver: utils.get_taxonomy_hierarchy                         *)
(***************************************************************************)

rSpecies ==
    <<"S","p","e","c","i","e","s">>
rSubspecies ==
    <<"S","u","b","s","p","e","c","i","e","s">>
rGenus ==
    <<"G","e","n","u","s">>
rSubfamily ==
    <<"S","u","b","f","a","m","i","l","y">>
rFamily ==
    <<"F","a","m","i","l","y">>
rClass ==
    <<"C","l","a","s","s">>
rPhylum ==
    <<"P","h","y","l","u","m">>

\* Table taxa.
taxa ==
    << [tid |-> 1, sciname |-> <<"M","o","l","l","u","s","c","a">>, rankid |-> 30],
       [tid |-> 2, sciname |-> sGastropoda, rankid |-> 60],
       [tid |-> 3, sciname |-> sAchatinellidae, rankid |-> 140],
       [tid |-> 4, sciname |-> <<"A","c","h","a","t","i","n","e","l","l","a">>, rankid |-> 180],
       [tid |-> 5, sciname |-> <<"A","c","h","a","t","i","n","e","l","l","a"," ","m","u","s","t","e","l","i","n","a">>, rankid |-> 220],
       [tid |-> 6, sciname |-> sAmastridae, rankid |-> 140],
       [tid |-> 7, sciname |-> <<"A","n","i","m","a","l","i","a">>, rankid |-> 10] >>

\* Table taxonunits.
taxonunits ==
    << [rankid |-> 10, rankname |-> <<"K","i","n","g","d","o","m">>],
       [rankid |-> 30, rankname |-> rPhylum],
       [rankid |-> 60, rankname |-> rClass],
       [rankid |-> 140, rankname |-> rFamily],
       [rankid |-> 180, rankname |-> rGenus],
       [rankid |-> 220, rankname |-> rSpecies] >>

\* Table pilsbry.taxaenumtree: every ancestor of every unit.
taxaenumtree ==
    << [tid |-> 5, parenttid |-> 4], [tid |-> 5, parenttid |-> 3],
       [tid |-> 5, parenttid |-> 2], [tid |-> 5, parenttid |-> 1],
       [tid |-> 4, parenttid |-> 3], [tid |-> 4, parenttid |-> 2],
       [tid |-> 4, parenttid |-> 1], [tid |-> 3, parenttid |-> 2],
       [tid |-> 3, parenttid |-> 1], [tid |-> 6, parenttid |-> 2],
       [tid |-> 6, parenttid |-> 1], [tid |-> 2, parenttid |-> 1],
       [tid |-> 1, parenttid |-> 7] >>

\* No unit id: tid = None (a unit id is truthy, so "not tid" tells the two apart).
NoTid ==
    0

\* cursor.execute("SELECT tid FROM taxa WHERE sciname = %s"); fetchone()['tid'],
\* inside try/except: any failure leaves tid = None.
TidOf(sciname) ==
    LET result == SelectSeq(taxa, LAMBDA r : r.sciname = sciname)
    IN  IF result = <<>> THEN NoTid ELSE Head(result).tid

\* A dict in insertion order: a sequence of [rank, name] items.
DictHas(d, k) ==
    \E i \in 1..Len(d) : d[i].rank = k

DictGet(d, k, default) ==
    IF DictHas(d, k) THEN (CHOOSE it \in {d[i] : i \in 1..Len(d)} : it.rank = k).name
    ELSE default

DictPut(d, k, v) ==
    IF DictHas(d, k)
    THEN [i \in 1..Len(d) |-> IF d[i].rank = k THEN [rank |-> k, name |-> v] ELSE d[i]]
    ELSE Append(d, [rank |-> k, name |-> v])

\* get_taxonomy_hierarchy returning None.
NoDict ==
    <<>>

RECURSIVE SortDesc(_)
\* ORDER BY te.parenttid DESC
SortDesc(parents) ==
    IF parents = {} THEN <<>>
    ELSE LET m == CHOOSE p \in parents : \A q \in parents : q <= p
         IN  <<m>> \o SortDesc(parents \ {m})

\* The rows of the ancestor query for a unit id: (sciname, rankname) of each
\* parent, by descending parent id.
AncestorRows(tid) ==
    LET parents == {taxaenumtree[i].parenttid :
                       i \in {j \in 1..Len(taxaenumtree) : taxaenumtree[j].tid = tid}}
        order == SortDesc(parents)
        rowsOf(p) ==
            LET t == SelectSeq(taxa, LAMBDA r : r.tid = p)
            IN  Flatten([i \in 1..Len(t) |->
                  LET tu == SelectSeq(taxonunits, LAMBDA u : u.rankid = t[i].rankid)
                  IN  [j \in 1..Len(tu) |->
                         [sciname |-> t[i].sciname, rankname |-> tu[j].rankname]]])
    IN  Flatten([i \in 1..Len(order) |-> rowsOf(order[i])])

RECURSIVE Walk_overwrite(_, _)
\* A slip of Walk: a later ancestor row replaces a rank already in the chain.
Walk_overwrite(tax_dic, rows) ==
    IF rows = <<>> THEN tax_dic
    ELSE Walk_overwrite(DictPut(tax_dic, Head(rows).rankname, Head(rows).sciname),
                        Tail(rows))

RECURSIVE Walk(_, _)
\* for row in cursor.fetchall(): if row['rankname'] not in tax_dic: ...
Walk(tax_dic, rows) ==
    IF rows = <<>> THEN tax_dic
    ELSE Walk(IF DictHas(tax_dic, Head(rows).rankname) THEN tax_dic
              ELSE DictPut(tax_dic, Head(rows).rankname, Head(rows).sciname),
              Tail(rows))

\* The locals of get_taxonomy_hierarchy before its return: which lookups ran,
\* the unit id found, the chain as seeded by the lookups and the chain.
TaxonomyLocals(genusRuns, familyRuns, tid, seeded) ==
    [genusRuns |-> genusRuns, familyRuns |-> familyRuns, walkRuns |-> tid # NoTid,
     tid |-> tid, seeded |-> seeded,
     tax_dic |-> IF tid # NoTid THEN Walk(seeded, AncestorRows(tid)) ELSE seeded]

\* "Lookup in omoccurrences if taxon rank is below Family": occ is the result
\* of the family query.  No row, or a family that is no unit, raises inside
\* the try and leaves tid = None.
FamilyStep(taxon, taxonrank, genusRuns, tid, d, occ) ==
    IF taxonrank \in {rGenus, rSpecies, rSubspecies, rSubfamily, rFamily} /\ tid = NoTid
    THEN IF occ = <<>>
         THEN TaxonomyLocals(genusRuns, TRUE, NoTid, d)
         ELSE TaxonomyLocals(genusRuns, TRUE, TidOf(Head(occ).family),
                             DictPut(d, rFamily, Head(occ).family))
    ELSE TaxonomyLocals(genusRuns, FALSE, tid, d)

\* "Try to search using Genus"
GenusStep(taxon, taxonrank, tid, d) ==
    IF taxonrank \in {rSpecies, rSubspecies} /\ tid = NoTid
    THEN FamilyStep(taxon, taxonrank, TRUE, TidOf(FirstToken(taxon)),
                    DictPut(d, rGenus, FirstToken(taxon)),
                    SelectSeq(omoccurrences, LAMBDA r : r.sciname = taxon))
    ELSE FamilyStep(taxon, taxonrank, FALSE, tid, d,
                    SelectSeq(omoccurrences, LAMBDA r : r.sciname = taxon))

\* "Try searching for taxon as is", and what follows.
TaxonomyTrace(taxon, taxonrank) ==
    GenusStep(taxon, taxonrank, TidOf(taxon), DictPut(<<>>, taxonrank, taxon))

\* return tax_dic if len(tax_dic) > 2 else None
AcceptChain(tax_dic) ==
    IF Len(tax_dic) > 2 THEN tax_dic ELSE NoDict

get_taxonomy_hierarchy(taxon, taxonrank) ==
    AcceptChain(TaxonomyTrace(taxon, taxonrank).tax_dic)

(***************************************************************************)
(* Rows of the staging sheet and the staging folder                        *)
(***************************************************************************)

tType ==
    <<"T","y","p","e">>
tSpecimen ==
    <<"S","p","e","c","i","m","e","n">>
tCaptive ==
    <<"C","a","p","t","i","v","e">>
tField ==
    <<"F","i","e","l","d">>
tNonMollusk ==
    <<"N","o","n","-","M","o","l","l","u","s","k">>
tOutreach ==
    <<"O","u","t","r","e","a","c","h">>
tRepresentativePlate ==
    <<"R","e","p","r","e","s","e","n","t","a","t","i","v","e"," ","P","l","a","t","e">>
sYes ==
    <<"Y","e","s">>
sMollusca ==
    <<"M","o","l","l","u","s","c","a">>

\* config["folders"]["base_folder"] and ["staging_folder"], each one opaque segment.
base_folder ==
    <<"/","b","a","s","e">>
staging_folder ==
    <<"/","s","t","a","g","i","n","g">>

\* No destination path (the local is unbound).
NoPath ==
    <<>>

\* os.path.join: an absolute segment discards what precedes it, an empty
\* segment adds no level.
Join(segs) ==
    LET abs == {k \in 1..Len(segs) : segs[k] # <<>> /\ Head(segs[k]) = "/"}
        from == IF abs = {} THEN 1 ELSE CHOOSE k \in abs : \A j \in abs : j <= k
    IN  SelectSeq(SubSeq(segs, from, Len(segs)), LAMBDA sg : sg # <<>>)

\* os.path.join raises TypeError on a None component.
JoinRaises(segs) ==
    \E k \in 1..Len(segs) : segs[k] = None

\* The staging folders on disk at the start of a run: the files directly in
\* each folder and whether it has a "pilsbry" subfolder holding files.
\* A folder name outside the domain is a folder that does not exist.
StagingAtStart ==
    (<<"f","1">> :> [files |-> {"img1", "img2"}, pilsbry |-> FALSE]) @@
    (<<"f","p">> :> [files |-> {"img1"}, pilsbry |-> TRUE])

\* utils.check_folder_exists, against the folders on disk.
check_folder_exists(folders, foldername) ==
    foldername \in DOMAIN folders

\* main.has_pilsbry_files
has_pilsbry_files(folders, foldername) ==
    foldername \in DOMAIN folders /\ folders[foldername].pilsbry

\* A row padded to 21 columns, all empty.
BlankRow ==
    [c \in 0..20 |-> <<>>]

FolderNames ==
    {<<"f","1">>, <<"f","p">>, <<"f","x">>}

SpecimenNumbers ==
    {<<>>, <<"A","1">>, <<"A","2">>, <<"A","3">>, <<"A","6">>, <<"A","8">>, <<"A","9">>, <<"D","1">>, <<"C","1">>, <<"C","2">>, <<"C","3">>, <<"Z","0">>}

CatalogNumbers ==
    {<<>>, <<"B","P","B","M","1","2">>, <<"B","P","B","M","1","3">>, <<" ","B","P","B","M","1","2"," ">>, <<"M","B","1","2">>, <<"1","2">>, <<"B","P","B","M","B","7">>, <<"B","7">>,
     <<"B","P","B","M","8","8">>, <<"B","P","B","M","4","5">>, <<"B","P","B","M","5","0">>, <<"B","P","B","M","9","9">>}

SpecimenTypes ==
    {<<>>, <<"D","r","y"," ","s","h","e","l","l">>}

BoxNumbers ==
    {<<>>, <<"7">>, <<"9">>, <<"6">>, <<"5">>, <<"4">>, <<"3">>, <<"0">>}

FieldNumbers ==
    {<<>>, <<"F","1">>, <<"F","2">>, <<"F","3">>, <<"F","4">>, <<"F","5">>, <<"F","9">>}

TaxonNames ==
    {<<>>, <<"A","c","h","a","t","i","n","e","l","l","a"," ","m","u","s","t","e","l","i","n","a">>, <<"A","c","h","a","t","i","n","e","l","l","a">>, <<"A","m","a","s","t","r","a"," ","s","p">>, <<"L","a","m","i","n","e","l","l","a">>,
     <<"N","e","m","o">>}

TaxonRanks ==
    {<<>>, rSpecies, rSubspecies, rGenus, rSubfamily, rFamily, rClass}

TypeRows ==
    {[BlankRow EXCEPT ![1] = tType, ![2] = sn, ![3] = cat, ![11] = f] :
        sn \in SpecimenNumbers, cat \in CatalogNumbers, f \in FolderNames}

SpecimenRows ==
    {[BlankRow EXCEPT ![1] = tSpecimen, ![6] = sn, ![7] = cat, ![9] = st,
                      ![12] = dup, ![11] = f] :
        sn \in SpecimenNumbers, cat \in CatalogNumbers, st \in SpecimenTypes,
        dup \in {<<>>, sYes}, f \in FolderNames}

CaptiveRows ==
    {[BlankRow EXCEPT ![1] = tCaptive, ![5] = box, ![11] = f] :
        box \in BoxNumbers, f \in FolderNames}

FieldRows ==
    {[BlankRow EXCEPT ![1] = tField, ![10] = fn, ![11] = f] :
        fn \in FieldNumbers, f \in FolderNames}

NonMolluskRows ==
    {[BlankRow EXCEPT ![1] = tNonMollusk, ![15] = t, ![16] = ph, ![17] = idn, ![11] = f] :
        t \in {<<>>, <<"A","p","i","s"," ","m","e","l","l","i","f","e","r","a">>}, ph \in {<<>>, <<"A","r","t","h","r","o","p","o","d","a">>, <<"!","!">>},
        idn \in {<<>>, <<"X"," ","1">>}, f \in FolderNames}

OutreachRows ==
    {[BlankRow EXCEPT ![1] = tOutreach, ![13] = t, ![14] = rk, ![11] = f] :
        t \in TaxonNames, rk \in TaxonRanks, f \in FolderNames}

RepresentativePlateRows ==
    {[BlankRow EXCEPT ![1] = tRepresentativePlate, ![19] = gf, ![20] = gg, ![11] = f] :
        gf \in {<<>>, sAmastridae, <<"!","!">>}, gg \in {<<>>, <<"O","a","h","u">>}, f \in FolderNames}

\* Rows whose category is none of the seven.
OtherRows ==
    {[BlankRow EXCEPT ![1] = t, ![11] = f] : t \in {<<>>, <<"O","t","h","e","r">>}, f \in FolderNames}

\* The rows a form response can hold.
Rows ==
    TypeRows \cup SpecimenRows \cup CaptiveRows \cup FieldRows \cup NonMolluskRows
        \cup OutreachRows \cup RepresentativePlateRows \cup OtherRows

\* What the collaborators do during one row: whether the destination exists
\* already, whether the tracking append, the move, the rmdir and the sheet
\* deletion succeed.
Envs ==
    [destExists : BOOLEAN, appendOK : BOOLEAN, mvOK : BOOLEAN, rmOK : BOOLEAN,
     sheetOK : BOOLEAN]

(***************************************************************************)
(* Row Classifier & Path Builder: main.process_image_row                   *)
(***************************************************************************)

\* The locals read off the row, by image category.
ExtractFields(row) ==
    LET imagetype == row[1]
    IN  [foldername |-> row[11],
         imagetype |-> imagetype,
         specimennumber |-> IF imagetype = tType THEN row[2]
                            ELSE IF imagetype = tSpecimen THEN row[6] ELSE None,
         catalognumber |-> IF imagetype = tType THEN row[3]
                           ELSE IF imagetype = tSpecimen THEN row[7] ELSE None,
         plated |-> IF imagetype = tType THEN row[4]
                    ELSE IF imagetype = tSpecimen THEN row[8] ELSE None,
         boxnumber |-> IF imagetype = tCaptive THEN row[5] ELSE None,
         specimentype |-> IF imagetype = tSpecimen THEN row[9] ELSE None,
         fieldnumber |-> IF imagetype = tField THEN row[10] ELSE None,
         outreachduplicate |-> IF imagetype = tSpecimen THEN row[12] ELSE None,
         taxon |-> IF imagetype = tOutreach THEN row[13]
                   ELSE IF imagetype = tNonMollusk THEN row[15] ELSE None,
         taxonrank |-> IF imagetype = tOutreach THEN row[14] ELSE None,
         phylum |-> IF imagetype = tNonMollusk THEN row[16]
                    ELSE IF imagetype \in {tField, tRepresentativePlate} THEN None
                    ELSE sMollusca,
         identificationnumber |-> IF imagetype = tNonMollusk THEN row[17] ELSE None,
         grouping |-> IF imagetype = tRepresentativePlate THEN row[18] ELSE None,
         groupingfamily |-> IF imagetype = tRepresentativePlate THEN row[19] ELSE None,
         groupinggeo |-> IF imagetype = tRepresentativePlate THEN row[20] ELSE None]

\* The catalog cross-check of a resolved record against the supplied catalog
\* number: TRUE when the row is skipped as a mismatch.
CatalogMismatch(specimen_info, catalognumber) ==
    /\ specimen_info # NoRow
    /\ Truthy(catalognumber)
    /\ Truthy(specimen_info.catalognumber)
    /\ Strip(specimen_info.catalognumber) # LStripChars(Strip(catalognumber), PrefixChars)

\* The result of a stage of process_image_row: how control leaves it
\* ("next": falls through to the next stage, "return": an early return,
\* "raise": an exception reaching the handler), why, and whether the early
\* return itself adds one to error_folders_count.
Leave(how, why, counted) ==
    [how |-> how, why |-> why, counted |-> counted]

\* The locals a row has when the lookups are over.
Locals(leave, lookups, specimen_info, field_info, specimenid, taxonomy, scinameBound) ==
    [leave |-> leave, lookups |-> lookups, specimen_info |-> specimen_info,
     field_info |-> field_info,
     occid |-> IF specimen_info = NoRow THEN 0 ELSE specimen_info.occid,
     specimenid |-> specimenid,
     family |-> taxonomy[1], sciname |-> taxonomy[2], subfamily |-> taxonomy[3],
     scinameBound |-> scinameBound]

\* Line 433 onwards, once specimen_info is settled: the NoRecord gate, then
\* extract_taxonomy_info.
Settle(specimen_info, specimenid, lookups) ==
    IF specimen_info = NoRow
    THEN Locals(Leave("return", "NoRecord", TRUE), lookups, NoRow, NoRow, specimenid,
                <<None, None, None>>, FALSE)
    ELSE IF ExtractRaises(specimen_info)
    THEN Locals(Leave("raise", "AttributeError", FALSE), lookups, specimen_info, NoRow,
                specimenid, <<None, None, None>>, FALSE)
    ELSE Locals(Leave("next", "", FALSE), lookups, specimen_info, NoRow, specimenid,
                extract_taxonomy_info(specimen_info), TRUE)

\* Lines 414-423: the specimen number resolved to specimen_data; specimen_info
\* is the occurrence it points at.
ByOccid(f, byNumber, specimen_info) ==
    IF CatalogMismatch(specimen_info, f.catalognumber)
    THEN Locals(Leave("return", "CatalogMismatch", TRUE), <<byNumber>>, specimen_info,
                NoRow, byNumber.value.specimenid, <<None, None, None>>, FALSE)
    ELSE Settle(specimen_info, byNumber.value.specimenid, <<byNumber>>)

\* Lines 413-417: the lookup by specimen number.
ByNumber(f, byNumber) ==
    IF byNumber.value # NoRow
    THEN ByOccid(f, byNumber, get_specimen_info_by_occid(byNumber.value.occid))
    ELSE Settle(NoRow, 0, <<byNumber>>)

\* The lookup by catalog number or by box number.
ByKey(lookup) ==
    Settle(lookup.value, 0, <<lookup>>)

\* Lines 443-449: the lookup of a Field row.
ByFieldNumber(field_info) ==
    IF field_info = NoRow
    THEN Locals(Leave("return", "NoFieldInfo", TRUE), <<>>, NoRow, NoRow, 0,
                <<None, None, None>>, FALSE)
    ELSE Locals(Leave("next", "", FALSE), <<>>, NoRow, field_info, 0,
                <<None, None, None>>, FALSE)

\* A slip of the lookup dispatch: a specimen number that resolves to no single
\* record falls back on the catalog number.
LookupStage_fallback(f) ==
    IF /\ f.imagetype \in {tType, tSpecimen}
       /\ Truthy(f.specimennumber)
       /\ Truthy(f.catalognumber)
       /\ get_occid_by_specimen_number(f.specimennumber).value = NoRow
    THEN ByKey(get_specimen_info_by_catalog_number(f.catalognumber))
    ELSE
        IF f.imagetype \in {tType, tSpecimen, tCaptive}
        THEN IF Truthy(f.specimennumber)
             THEN ByNumber(f, get_occid_by_specimen_number(f.specimennumber))
             ELSE IF Truthy(f.catalognumber)
             THEN ByKey(get_specimen_info_by_catalog_number(f.catalognumber))
             ELSE IF f.imagetype = tCaptive /\ Truthy(f.boxnumber)
             THEN ByKey(get_captive_info(f.boxnumber))
             ELSE Settle(NoRow, 0, <<>>)
        ELSE IF f.imagetype = tField
        THEN ByFieldNumber(get_field_info(f.fieldnumber))
        ELSE Locals(Leave("next", "", FALSE), <<>>, NoRow, NoRow, 0,
                    <<None, None, None>>, FALSE)

\* Database lookups: the specimen by number, else by catalog number, else
\* (Captive) by box number; the location by field number.
LookupStage(f) ==
    IF f.imagetype \in {tType, tSpecimen, tCaptive}
    THEN IF Truthy(f.specimennumber)
         THEN ByNumber(f, get_occid_by_specimen_number(f.specimennumber))
         ELSE IF Truthy(f.catalognumber)
         THEN ByKey(get_specimen_info_by_catalog_number(f.catalognumber))
         ELSE IF f.imagetype = tCaptive /\ Truthy(f.boxnumber)
         THEN ByKey(get_captive_info(f.boxnumber))
         ELSE Settle(NoRow, 0, <<>>)
    ELSE IF f.imagetype = tField
    THEN ByFieldNumber(get_field_info(f.fieldnumber))
    ELSE Locals(Leave("next", "", FALSE), <<>>, NoRow, NoRow, 0,
                <<None, None, None>>, FALSE)

\* f"_{identificationQualifier.replace(' ', '_').replace('.', '')}", or "".
IdQualifier(specimen_info) ==
    IF Truthy(specimen_info.identificationQualifier)
    THEN <<"_">> \o Replace(Replace(specimen_info.identificationQualifier, " ", <<"_">>),
                            ".", <<>>)
    ELSE <<>>

\* A slip of NewFolderName: the supplied specimen number is left out.
NewFolderName_nonumber(sciname, specimen_info, specimennumber) ==
    sciname \o IdQualifier(specimen_info) \o <<"_","B","P","B","M">> \o Fmt(specimen_info.catalognumber)

\* new_foldername of a Type/Specimen row.
NewFolderName(sciname, specimen_info, specimennumber) ==
    sciname \o IdQualifier(specimen_info) \o <<"_","B","P","B","M">> \o Fmt(specimen_info.catalognumber)
        \o (IF Truthy(specimennumber) THEN <<"_">> \o specimennumber ELSE <<>>)

\* What a path rule leaves behind: how control leaves it, the path and the
\* locals it (re)binds.
PathResult(leave, path, L, taxaclass) ==
    [leave |-> leave, destination_path |-> path, taxaclass |-> taxaclass,
     family |-> L.family, subfamily |-> L.subfamily, sciname |-> L.sciname,
     scinameBound |-> L.scinameBound, new_foldername |-> <<>>]

\* The segments of a Type/Specimen destination: the class folder alone for
\* the two class-level names, else Gastropoda/family[/subfamily]; a Specimen
\* row's subtype last.
TypeSpecimenSegments(f, L, name, familyLess) ==
    (IF familyLess
     THEN <<base_folder, f.imagetype,
            IF L.sciname = sBivalvia THEN sBivalvia ELSE sGastropoda, name>>
     ELSE IF Truthy(L.subfamily)
     THEN <<base_folder, f.imagetype, sGastropoda, L.family, L.subfamily, name>>
     ELSE <<base_folder, f.imagetype, sGastropoda, L.family, name>>)
    \o (IF f.imagetype = tSpecimen /\ Truthy(f.specimentype)
        THEN <<f.specimentype>> ELSE <<>>)

\* A slip of TypeSpecimenNamed: the family gate does not return, and the row
\* goes on with the family-less path.
TypeSpecimenNamed_nogate(f, L, name) ==
    [PathResult(Leave("next", "", FALSE),
                Join(TypeSpecimenSegments(f, L, name,
                        L.sciname \in {sGastropoda, sBivalvia} \/ ~Truthy(L.family))),
                L, IF L.sciname = sBivalvia THEN sBivalvia ELSE sGastropoda)
        EXCEPT !.new_foldername = name]

\* Lines 459-477, with new_foldername built.
TypeSpecimenNamed(f, L, name) ==
    IF L.sciname \notin {sGastropoda, sBivalvia} /\ ~Truthy(L.family)
    THEN [PathResult(Leave("return", "NoFamily", FALSE), NoPath, L, None)
             EXCEPT !.new_foldername = name]
    ELSE [PathResult(Leave("next", "", FALSE),
                     Join(TypeSpecimenSegments(f, L, name,
                             L.sciname \in {sGastropoda, sBivalvia})),
                     L, IF L.sciname = sBivalvia THEN sBivalvia ELSE sGastropoda)
             EXCEPT !.new_foldername = name]

\* Path rule of Type and Specimen rows.
TypeSpecimenPath(f, L) ==
    TypeSpecimenNamed(f, L, NewFolderName(L.sciname, L.specimen_info, f.specimennumber))

\* Path rule of Captive rows.
CaptivePath(f, L) ==
    LET segs == IF Truthy(L.subfamily)
                THEN <<base_folder, f.imagetype, L.family, L.subfamily, L.sciname,
                       <<"B","o","x","_">> \o f.boxnumber>>
                ELSE <<base_folder, f.imagetype, L.family, L.sciname,
                       <<"B","o","x","_">> \o f.boxnumber>>
    IN  IF ~Truthy(f.boxnumber)
        THEN PathResult(Leave("return", "NoBoxNumber", FALSE), NoPath, L, sGastropoda)
        ELSE IF JoinRaises(segs)
        THEN PathResult(Leave("raise", "TypeError", FALSE), NoPath, L, sGastropoda)
        ELSE PathResult(Leave("next", "", FALSE), Join(segs), L, sGastropoda)

\* A slip of the Field path rule: the locality is preferred to the municipality.
FieldPath_localityfirst(f, L) ==
    LET country == clean_folder_name(L.field_info.country)
        state == clean_folder_name(L.field_info.stateProvince)
        island == clean_folder_name(L.field_info.island)
        municipality == clean_folder_name(L.field_info.municipality)
        locality == clean_folder_name(L.field_info.locality)
        location_folder == IF Truthy(locality) THEN locality ELSE municipality
        segs == IF Truthy(island)
                THEN <<base_folder, tField, country, state, island, location_folder,
                       f.fieldnumber>>
                ELSE <<base_folder, tField, country, state, location_folder,
                       f.fieldnumber>>
    IN  IF ~Truthy(country) \/ ~Truthy(state)
        THEN PathResult(Leave("return", "NoCountryOrState", FALSE), NoPath, L, None)
        ELSE IF ~Truthy(locality) /\ ~Truthy(municipality)
        THEN PathResult(Leave("return", "NoLocality", FALSE), NoPath, L, None)
        ELSE PathResult(Leave("next", "", FALSE), Join(segs), L, None)

\* Path rule of Field rows.
FieldPath(f, L) ==
    LET country == clean_folder_name(L.field_info.country)
        state == clean_folder_name(L.field_info.stateProvince)
        island == clean_folder_name(L.field_info.island)
        municipality == clean_folder_name(L.field_info.municipality)
        locality == clean_folder_name(L.field_info.locality)
        location_folder == IF Truthy(municipality) THEN municipality ELSE locality
        segs == IF Truthy(island)
                THEN <<base_folder, tField, country, state, island, location_folder,
                       f.fieldnumber>>
                ELSE <<base_folder, tField, country, state, location_folder,
                       f.fieldnumber>>
    IN  IF ~Truthy(country) \/ ~Truthy(state)
        THEN PathResult(Leave("return", "NoCountryOrState", FALSE), NoPath, L, None)
        ELSE IF ~Truthy(locality) /\ ~Truthy(municipality)
        THEN PathResult(Leave("return", "NoLocality", FALSE), NoPath, L, None)
        ELSE PathResult(Leave("next", "", FALSE), Join(segs), L, None)

\* Path rule of Non-Mollusk rows.
NonMolluskPath(f, L) ==
    LET phylum == clean_folder_name(f.phylum)
        taxon == clean_folder_name(f.taxon)
        identificationnumber == clean_folder_name(f.identificationnumber)
        segs == IF Truthy(identificationnumber)
                THEN <<base_folder, tNonMollusk, phylum,
                       taxon \o <<"_">> \o identificationnumber>>
                ELSE <<base_folder, tNonMollusk, phylum, taxon>>
        bound == [L EXCEPT !.sciname = taxon, !.scinameBound = TRUE]
    IN  IF ~Truthy(phylum) \/ ~Truthy(taxon)
        THEN PathResult(Leave("return", "NoTaxonOrPhylum", FALSE), NoPath, bound, None)
        ELSE PathResult(Leave("next", "", FALSE), Join(segs), bound, None)

\* Lines 538-553, with the chain resolved.
OutreachResolved(f, L, taxaclass, family, subfamily) ==
    PathResult(Leave("next", "", FALSE),
               Join(<<base_folder, tOutreach, taxaclass>>
                       \o (IF Truthy(family) THEN <<family>> ELSE <<>>)
                       \o (IF Truthy(subfamily) THEN <<subfamily>> ELSE <<>>)
                       \o <<clean_folder_name(f.taxon)>>),
               [L EXCEPT !.family = family, !.subfamily = subfamily], taxaclass)

\* Lines 534-551: the resolution gate, then the class, the family and (for
\* Achatinellidae) the subfamily of the resolved genus.
OutreachWith(f, L, taxonomy) ==
    IF taxonomy = NoDict
    THEN PathResult(Leave("return", "NoTaxonomy", FALSE), NoPath, L, None)
    ELSE OutreachResolved(f, L, DictGet(taxonomy, rClass, <<>>),
                          DictGet(taxonomy, rFamily, <<>>),
                          IF DictGet(taxonomy, rFamily, <<>>) = sAchatinellidae
                          THEN get_achat_subfamily(DictGet(taxonomy, rGenus, <<>>))
                          ELSE None)

\* Path rule of Outreach rows.
OutreachPath(f, L) ==
    IF ~Truthy(f.taxon) \/ ~Truthy(f.taxonrank)
    THEN PathResult(Leave("return", "NoTaxonOrRank", FALSE), NoPath, L, None)
    ELSE OutreachWith(f, L, get_taxonomy_hierarchy(f.taxon, f.taxonrank))

\* Path rule of Representative Plate rows.
RepresentativePlatePath(f, L) ==
    LET groupingfamily == clean_folder_name(f.groupingfamily)
        groupinggeo == clean_folder_name(f.groupinggeo)
        group_folder == IF Truthy(groupingfamily) /\ Truthy(groupinggeo)
                        THEN groupingfamily \o <<"_">> \o groupinggeo
                        ELSE IF Truthy(groupingfamily) THEN groupingfamily
                        ELSE groupinggeo
    IN  IF ~Truthy(groupingfamily) /\ ~Truthy(groupinggeo)
        THEN PathResult(Leave("return", "NoGrouping", FALSE), NoPath, L, None)
        ELSE PathResult(Leave("next", "", FALSE),
                        Join(<<base_folder, <<"R","e","p","r","e","s","e","n","t","a","t","i","v","e","s">>, group_folder,
                               f.foldername>>), L, None)

\* A slip of the path rule: a row of no known category is filed under its
\* category text.
PathStage_default(f, L) ==
    IF f.imagetype \in {tType, tSpecimen} THEN TypeSpecimenPath(f, L)
    ELSE IF f.imagetype = tCaptive THEN CaptivePath(f, L)
    ELSE IF f.imagetype = tField THEN FieldPath(f, L)
    ELSE IF f.imagetype = tNonMollusk THEN NonMolluskPath(f, L)
    ELSE IF f.imagetype = tOutreach THEN OutreachPath(f, L)
    ELSE IF f.imagetype = tRepresentativePlate THEN RepresentativePlatePath(f, L)
    ELSE PathResult(Leave("next", "", FALSE),
                    Join(<<base_folder, f.imagetype, f.foldername>>), L, None)

\* "Construct destination paths dynamically": the seven-way dispatch.  A
\* category that is none of the seven binds no destination_path.
PathStage(f, L) ==
    IF f.imagetype \in {tType, tSpecimen} THEN TypeSpecimenPath(f, L)
    ELSE IF f.imagetype = tCaptive THEN CaptivePath(f, L)
    ELSE IF f.imagetype = tField THEN FieldPath(f, L)
    ELSE IF f.imagetype = tNonMollusk THEN NonMolluskPath(f, L)
    ELSE IF f.imagetype = tOutreach THEN OutreachPath(f, L)
    ELSE IF f.imagetype = tRepresentativePlate THEN RepresentativePlatePath(f, L)
    ELSE PathResult(Leave("next", "", FALSE), NoPath, L, None)

(***************************************************************************)
(* Side effects of a row whose destination path is derived                 *)
(***************************************************************************)

\* One call on a collaborator: the operation, the path or sheet index it is
\* given, and whether it took effect.
Effect(op, path, index, ok) ==
    [op |-> op, path |-> path, index |-> index, ok |-> ok]

\* x or ""
OrEmpty(x) ==
    IF Truthy(x) THEN x ELSE <<>>

\* specimen_info.get(key, "") if specimen_info else ""
InfoGet(specimen_info, key) ==
    IF specimen_info = NoRow THEN <<>>
    ELSE IF key \in DOMAIN specimen_info THEN specimen_info[key]
    ELSE <<>>

\* main.add_to_google_sheets: the 21 values of the appended row.  The
\* folder pathway is kept as the path's segments (the code rewrites only the
\* drive prefix and the separators).
TrackingRecord(f, L, P) ==
    [occid |-> L.occid, specimenid |-> L.specimenid, phylum |-> f.phylum,
     taxaclass |-> P.taxaclass, family |-> OrEmpty(P.family),
     subfamily |-> OrEmpty(P.subfamily),
     sciname |-> IF Truthy(P.sciname) THEN Replace(P.sciname, "_", <<" ">>) ELSE <<>>,
     identificationQualifier |->
        LET q == InfoGet(L.specimen_info, "identificationQualifier")
        IN  IF Truthy(q) THEN Replace(q, "_", <<" ">>) ELSE <<>>,
     catalognumber |-> OrEmpty(f.catalognumber),
     specimennumber |-> OrEmpty(f.specimennumber),
     imagetype |-> OrEmpty(f.imagetype),
     specimentype |-> OrEmpty(f.specimentype),
     typestatus |-> OrEmpty(InfoGet(L.specimen_info, "typestatus")),
     fieldnumber |-> OrEmpty(InfoGet(L.specimen_info, "fieldnumber")),
     captiverearingbox |-> OrEmpty(f.boxnumber),
     country |-> OrEmpty(InfoGet(L.specimen_info, "country")),
     state |-> OrEmpty(InfoGet(L.specimen_info, "stateProvince")),
     island |-> OrEmpty(InfoGet(L.specimen_info, "island")),
     locality |-> OrEmpty(InfoGet(L.specimen_info, "locality")),
     plated |-> OrEmpty(f.plated),
     folderpathway |-> P.destination_path]

\* The segments of outreach_destination_path (Specimen rows flagged "Yes").
OutreachDuplicateSegments(P) ==
    IF Truthy(P.subfamily)
    THEN <<base_folder, tOutreach, sGastropoda, P.family, P.subfamily, P.new_foldername>>
    ELSE <<base_folder, tOutreach, sGastropoda, P.family, P.new_foldername>>

\* A slip of DeleteIndex: the deletion starts one row too far.
DeleteIndex_next(rownum) ==
    rownum + 1

\* "startIndex": rownum  -- the 0-based sheet row a deletion request names.
DeleteIndex(rownum) ==
    rownum

\* A slip of delete_from_staging_sheet: the request names the row above.
delete_from_staging_sheet_above(rownum, sheet, env) ==
    LET ok == env.sheetOK /\ rownum - 1 < Len(sheet)
    IN  [effect |-> Effect("delete_row", NoPath, rownum - 1, ok),
         rownum |-> IF ok THEN rownum - 1 ELSE rownum]

\* utils.delete_from_staging_sheet: the request and the rownum it returns.
\* The request fails when the service fails or no such row exists.
delete_from_staging_sheet(rownum, sheet, env) ==
    LET ok == env.sheetOK /\ DeleteIndex(rownum) < Len(sheet)
    IN  [effect |-> Effect("delete_row", NoPath, DeleteIndex(rownum), ok),
         rownum |-> IF ok THEN rownum - 1 ELSE rownum]

\* A slip of delete_folder: the folder is removed whether or not it is empty.
delete_folder_nonempty(path, env) ==
    [effects |-> <<Effect("rmdir", path, 0, env.rmOK)>>,
     deleted |-> env.rmOK]

\* utils.delete_folder after the move: the folder is empty when the move took
\* everything; os.rmdir may still fail.
delete_folder(path, env) ==
    [effects |-> IF env.mvOK THEN <<Effect("rmdir", path, 0, env.rmOK)>> ELSE <<>>,
     deleted |-> env.mvOK /\ env.rmOK]

\* The outcome of process_image_row on one row: the effects in call order,
\* the additions to the counters, and the new rownum.
Outcome(f, L, P, why, effects, errors, moved, rownum) ==
    [fields |-> f, lookups |-> L.lookups, specimen_info |-> L.specimen_info,
     family |-> P.family, sciname |-> P.sciname, subfamily |-> P.subfamily,
     new_foldername |-> P.new_foldername,
     destination_path |-> P.destination_path, outcome |-> why,
     record |-> TrackingRecord(f, L, P),
     effects |-> effects, errors |-> errors, moved |-> moved, rownum |-> rownum]

\* Lines 570-638: create, record, (duplicate), move, clean up.
SideEffects(f, L, P, env, rownum, folders, sheet) ==
    LET create == <<Effect("create_folder", P.destination_path, 0, ~env.destExists)>>
        append == <<Effect("append", P.destination_path, 0, env.appendOK)>>
        dupSegs == OutreachDuplicateSegments(P)
        duplicates == f.imagetype = tSpecimen /\ f.outreachduplicate = sYes
        copy == IF duplicates
                THEN <<Effect("create_folder", Join(dupSegs), 0, TRUE),
                       Effect("copy_files", Join(dupSegs), 0, TRUE)>>
                ELSE <<>>
        move == <<Effect("move_files", P.destination_path, 0, env.mvOK)>>
        staging == <<staging_folder, f.foldername>>
        df == delete_folder(staging, env)
        ds == delete_from_staging_sheet(rownum, sheet, env)
    IN  IF P.destination_path = NoPath
        THEN Outcome(f, L, P, "UnboundLocalError:destination_path", <<>>, 1, 0, rownum)
        ELSE IF ~P.scinameBound
        THEN Outcome(f, L, P, "UnboundLocalError:sciname", create, 1, 0, rownum)
        ELSE IF f.imagetype \in {tSpecimen, tType, tCaptive}
                /\ has_pilsbry_files(folders, f.foldername)
        THEN Outcome(f, L, P, "NameError:folder_path", create \o append, 1, 0, rownum)
        ELSE IF duplicates /\ JoinRaises(dupSegs)
        THEN Outcome(f, L, P, "TypeError:outreach_path", create \o append, 1, 0, rownum)
        ELSE IF df.deleted
        THEN Outcome(f, L, P, "Moved",
                     create \o append \o copy \o move \o df.effects \o <<ds.effect>>,
                     0, 1, ds.rownum)
        ELSE Outcome(f, L, P, "DeleteFailed",
                     create \o append \o copy \o move \o df.effects, 1, 0, rownum)

\* A row that leaves before any side effect: an early return or an exception.
Skipped(f, L, leave, rownum) ==
    Outcome(f, L, PathResult(leave, NoPath, L, None), leave.why, <<>>,
            IF leave.how = "raise" \/ leave.counted THEN 1 ELSE 0, 0, rownum)

\* Lines 451-638, with the lookups done and the path rule applied.
AfterPath(f, L, P, env, rownum, folders, sheet) ==
    IF P.leave.how # "next" THEN Skipped(f, L, P.leave, rownum)
    ELSE SideEffects(f, L, P, env, rownum, folders, sheet)

\* Lines 408-638, with the lookups done.
AfterLookup(f, L, env, rownum, folders, sheet) ==
    IF L.leave.how # "next" THEN Skipped(f, L, L.leave, rownum)
    ELSE AfterPath(f, L, PathStage(f, L), env, rownum, folders, sheet)

\* Lines 381-638, with the fields read off the row.
AfterExtract(f, env, rownum, folders, sheet) ==
    IF ~check_folder_exists(folders, f.foldername)
    THEN Skipped(f, Locals(Leave("return", "FolderMissing", TRUE), <<>>, NoRow, NoRow,
                           0, <<None, None, None>>, FALSE),
                 Leave("return", "FolderMissing", TRUE), rownum)
    ELSE AfterLookup(f, LookupStage(f), env, rownum, folders, sheet)

\* main.process_image_row on one row, given what the collaborators do.
process_image_row(row, env, rownum, folders, sheet) ==
    AfterExtract(ExtractFields(row), env, rownum, folders, sheet)

(***************************************************************************)
(* Staging Row Orchestrator: main.process_staging_data                     *)
(***************************************************************************)

\* The most data rows the staging sheet holds at the start of a run.
MaxRows ==
    2

VARIABLES
    pc,                     \* where process_staging_data is
    sheet,                  \* the staging sheet: row ids, the header (0) first
    values,                 \* the sheet as fetched at the start of the run
    pos,                    \* index into processed_values of the next row
    rownum,                 \* global rownum
    moved_folders_count,    \* global moved_folders_count
    error_folders_count,    \* global error_folders_count
    folders,                \* the staging folders on disk
    created,                \* destination folders made by create_folder
    stored,                 \* files at destination paths: [path, file]
    tracking,               \* the audit spreadsheet's appended records
    processed,              \* ids of the rows handed to process_image_row
    last,                   \* the outcome of the latest process_image_row
    summary,                \* what the closing summary reports
    san                     \* a text, and clean_folder_name applied to it once and twice

vars ==
    <<pc, sheet, values, pos, rownum, moved_folders_count, error_folders_count,
      folders, created, stored, tracking, processed, last, summary, san>>

\* No row processed yet.
NoOutcome ==
    [outcome |-> "None"]

\* rownum = 1 at module load.
InitialRownum ==
    1

\* The staging sheet holding n data rows below its header.
SheetOf(n) ==
    [k \in 1..(n + 1) |-> k - 1]

Init ==
    /\ pc = "start"
    /\ sheet \in {<<>>} \cup {SheetOf(n) : n \in 0..MaxRows}
    /\ values = <<>>
    /\ pos = 1
    /\ rownum = InitialRownum
    /\ moved_folders_count = 0
    /\ error_folders_count = 0
    /\ folders = StagingAtStart
    /\ created = {}
    /\ stored = {}
    /\ tracking = <<>>
    /\ processed = <<>>
    /\ last = NoOutcome
    /\ summary = NoOutcome
    /\ san = NoOutcome

\* The fetch of "Form Responses 1": an empty result returns at once (no
\* summary), otherwise the loop starts after the header.
FetchStagingData ==
    /\ pc = "start"
    /\ values' = sheet
    /\ pc' = IF sheet = <<>> THEN "done" ELSE "loop"
    /\ UNCHANGED <<sheet, pos, rownum, moved_folders_count, error_folders_count,
                   folders, created, stored, tracking, processed, last, summary, san>>

\* The fetch raises: logged as critical, and the summary follows.
FetchFails ==
    /\ pc = "start"
    /\ pc' = "summary"
    /\ UNCHANGED <<sheet, values, pos, rownum, moved_folders_count,
                   error_folders_count, folders, created, stored, tracking,
                   processed, last, summary, san>>

\* The effects of an outcome that took place, by operation.
Took(out, op) ==
    {out.effects[k].path : k \in {j \in 1..Len(out.effects) :
                                     out.effects[j].op = op /\ out.effects[j].ok}}

\* The sheet after a deleteDimension request for the 0-based row index.
DeleteRow(sh, index) ==
    [k \in 1..(Len(sh) - 1) |-> IF k <= index THEN sh[k] ELSE sh[k + 1]]

\* One pass of the loop body: process_image_row(row); rownum += 1; exit().
\* exit() raises SystemExit, which "except Exception" does not catch: the
\* process ends here.
LoopIteration ==
    /\ pc = "loop"
    /\ pos <= Len(values) - 1
    /\ \E row \in Rows, env \in Envs :
       \E out \in {process_image_row(row, env, rownum, folders, sheet)} :
         LET name == out.fields.foldername
             movedAll == Took(out, "move_files") # {}
             gone == Took(out, "rmdir") # {}
             deletions == {out.effects[k].index :
                              k \in {j \in 1..Len(out.effects) :
                                        out.effects[j].op = "delete_row"
                                        /\ out.effects[j].ok}}
             files == IF name \in DOMAIN folders THEN folders[name].files ELSE {}
         IN  /\ last' = out
             /\ processed' = Append(processed, values[pos + 1])
             /\ error_folders_count' = error_folders_count + out.errors
             /\ moved_folders_count' = moved_folders_count + out.moved
             /\ rownum' = out.rownum + 1
             /\ created' = created \cup Took(out, "create_folder")
             /\ stored' = stored
                   \cup {[path |-> p, file |-> fl] :
                            p \in Took(out, "copy_files") \cup Took(out, "move_files"),
                            fl \in files}
             /\ folders' = IF gone
                           THEN [n \in DOMAIN folders \ {name} |-> folders[n]]
                           ELSE IF movedAll
                           THEN [folders EXCEPT ![name] = [files |-> {}, pilsbry |-> FALSE]]
                           ELSE folders
             /\ tracking' = IF Took(out, "append") # {}
                            THEN Append(tracking, out.record)
                            ELSE tracking
             /\ sheet' = IF deletions # {}
                         THEN DeleteRow(sheet, CHOOSE d \in deletions : TRUE)
                         ELSE sheet
    /\ pos' = pos + 1
    /\ pc' = "exited"
    /\ UNCHANGED <<values, summary, san>>

\* The loop has no row left: the summary follows.
LoopEnd ==
    /\ pc = "loop"
    /\ pos > Len(values) - 1
    /\ pc' = "summary"
    /\ UNCHANGED <<sheet, values, pos, rownum, moved_folders_count,
                   error_folders_count, folders, created, stored, tracking,
                   processed, last, summary, san>>

\* get_remaining_staging_sheet_rows, get_remaining_staging_folders and the
\* SUMMARY lines.
Summary ==
    /\ pc = "summary"
    /\ summary' = [outcome |-> "Summary",
                   moved |-> moved_folders_count, errors |-> error_folders_count,
                   remaining_sheets |-> IF Len(sheet) > 0 THEN Len(sheet) - 1 ELSE 0,
                   remaining_folders |-> Cardinality(DOMAIN folders)]
    /\ pc' = "done"
    /\ UNCHANGED <<sheet, values, pos, rownum, moved_folders_count,
                   error_folders_count, folders, created, stored, tracking,
                   processed, last, san>>

Next ==
    \/ FetchStagingData
    \/ FetchFails
    \/ LoopIteration
    \/ LoopEnd
    \/ Summary

Spec ==
    Init /\ [][Next]_vars

(***************************************************************************)
(* The sanitizer on its own: clean_folder_name applied to a text, and then *)
(* to its own result.                                                      *)
(***************************************************************************)

\* The longest text handed to the sanitizer.
MaxTextLen ==
    3

\* The characters of those texts: letters, a digit, the underscore, the
\* space, punctuation, and the code points outside ASCII.
SanChars ==
    {"a", "Z", "7", "_", " ", "!"} \cup (NonAscii \ {"U+0303"})

\* None and every text of at most MaxTextLen characters.
SanTexts ==
    {None} \cup UNION {[1..n -> SanChars] : n \in 0..MaxTextLen}

orchestrator ==
    <<pc, sheet, values, pos, rownum, moved_folders_count, error_folders_count,
      folders, created, stored, tracking, processed, last, summary>>

InitSanitize ==
    /\ pc = "sanitizer"
    /\ sheet = <<>>
    /\ values = <<>>
    /\ pos = 1
    /\ rownum = InitialRownum
    /\ moved_folders_count = 0
    /\ error_folders_count = 0
    /\ folders = StagingAtStart
    /\ created = {}
    /\ stored = {}
    /\ tracking = <<>>
    /\ processed = <<>>
    /\ last = NoOutcome
    /\ summary = NoOutcome
    /\ san \in {[stage |-> "text", x |-> t, once |-> None, twice |-> None] :
                   t \in SanTexts}

\* clean_folder_name(x)
SanitizeOnce ==
    /\ san.stage = "text"
    /\ san' = [san EXCEPT !.stage = "once", !.once = clean_folder_name(san.x)]
    /\ UNCHANGED orchestrator

\* clean_folder_name(clean_folder_name(x))
SanitizeTwice ==
    /\ san.stage = "once"
    /\ san' = [san EXCEPT !.stage = "twice", !.twice = clean_folder_name(san.once)]
    /\ UNCHANGED orchestrator

NextSanitize ==
    \/ SanitizeOnce
    \/ SanitizeTwice

SpecSanitize ==
    InitSanitize /\ [][NextSanitize]_vars

(***************************************************************************)
(* Properties                                                              *)
(***************************************************************************)

\* A row has been handed to process_image_row.
RowDone ==
    last # NoOutcome

\* The effects of the latest row with the given operation.
EffectsOf(op) ==
    {last.effects[k] : k \in {j \in 1..Len(last.effects) : last.effects[j].op = op}}

\* The number of rows of the store that match a lookup's key: the rows its
\* COUNT(*) query counts.
StoreMatches(lk) ==
    CASE lk.fn = "specimennumber" ->
            Cardinality({i \in 1..Len(spcollectionspecimen) :
                            spcollectionspecimen[i].specimennumber = lk.key})
      [] lk.fn = "catalognumber" ->
            Cardinality({i \in 1..Len(omoccurrences) :
                            /\ omoccurrences[i].collid = 1
                            /\ omoccurrences[i].catalognumber
                                  = LStripChars(lk.key, PrefixChars)})
      [] lk.fn = "boxnumber" ->
            Cardinality({i \in 1..Len(omoccurrences) :
                            omoccurrences[i].boxnumber = lk.key})

\* C1: each of the three specimen lookups reports AmbiguousMatch and returns
\* no record when the store holds two or more records matching the key, and
\* reports NotFound when it holds none; the row then has no specimen record.
AmbiguityPolicy ==
    RowDone =>
        \A k \in 1..Len(last.lookups) :
            /\ StoreMatches(last.lookups[k]) >= 2 =>
                  /\ last.lookups[k].outcome = "AmbiguousMatch"
                  /\ last.lookups[k].value = NoRow
                  /\ last.specimen_info = NoRow
            /\ StoreMatches(last.lookups[k]) = 0 =>
                  /\ last.lookups[k].outcome = "NotFound"
                  /\ last.lookups[k].value = NoRow

\* C1 witness: a catalog number that two records of collection 1 carry was
\* looked up, and AmbiguousMatch reported.
AmbiguousCatalogLookup ==
    /\ RowDone
    /\ Len(last.lookups) = 1
    /\ last.lookups[1].fn = "catalognumber"
    /\ StoreMatches(last.lookups[1]) = 2
    /\ last.lookups[1].outcome = "AmbiguousMatch"

\* The early returns of process_image_row that report a failed gate.
GateOutcomes ==
    {"CatalogMismatch", "NoRecord", "NoFieldInfo", "NoFamily", "NoBoxNumber",
     "NoCountryOrState", "NoLocality", "NoTaxonOrPhylum", "NoTaxonOrRank",
     "NoTaxonomy", "NoGrouping"}

\* The row's staging folder exists and its record resolved to one with a
\* scientific name and passed the cross-check.
Resolved(o) ==
    /\ o.outcome \notin {"FolderMissing", "CatalogMismatch", "AttributeError"}
    /\ o.specimen_info # NoRow

\* A Type/Specimen row whose resolved record has no family although its
\* scientific name is not one of the two class-level names.
FamilyMissing(o) ==
    /\ o.fields.imagetype \in {tType, tSpecimen}
    /\ Resolved(o)
    /\ ~Truthy(o.specimen_info.family)
    /\ o.specimen_info.sciname \notin {sGastropoda, sBivalvia}

\* A validation gate fails for the row.
GateFailed(o) ==
    \/ o.outcome \in GateOutcomes
    \/ FamilyMissing(o)

EveryFailureCounted ==
    [][(processed' # processed /\ last'.outcome \in GateOutcomes) =>
          error_folders_count' = error_folders_count + 1]_vars

\* The supplied catalog number without the prefix "BPBM" and without
\* surrounding whitespace.
WithoutPrefix(catalognumber) ==
    LET t == Strip(catalognumber)
    IN  IF Len(t) >= 4 /\ SubSeq(t, 1, 4) = <<"B","P","B","M">>
        THEN Strip(SubSeq(t, 5, Len(t))) ELSE t

\* C4: a Type/Specimen row that supplies a specimen number and a catalog
\* number passes the cross-check exactly when the resolved record's stored
\* catalog number equals the supplied one without its prefix "BPBM".
CatalogCrossCheck ==
    (/\ RowDone
     /\ last.fields.imagetype \in {tType, tSpecimen}
     /\ Truthy(last.fields.specimennumber)
     /\ Truthy(last.fields.catalognumber)
     /\ last.outcome # "FolderMissing"
     /\ last.specimen_info # NoRow)
    => ((last.outcome # "CatalogMismatch")
          <=> (last.specimen_info.catalognumber
                  = WithoutPrefix(last.fields.catalognumber)))

\* C5: clean_folder_name(clean_folder_name(x)) = clean_folder_name(x).
SanitizerIdempotent ==
    san.stage = "twice" => san.twice = san.once

\* What the sanitizer makes of one character: a word character stays, a
\* space becomes an underscore, a decomposable character leaves the word
\* characters of its decomposition, anything else goes.
SanitizedChar(c) ==
    CASE c \in Lower \cup Upper \cup Digit \cup {"_"} -> <<c>>
      [] c = " " -> <<"_">>
      [] c = "U+00A0" -> <<"_">>
      [] c = "U+00F1" -> <<"n">>
      [] c = "U+FB01" -> <<"f", "i">>
      [] OTHER -> <<>>

\* C6: clean_folder_name returns None for None or empty input; otherwise the
\* input with diacritical marks stripped, spaces replaced by underscores and
\* every other character outside [A-Za-z0-9_] removed.
SanitizerContract ==
    san.stage # "text" =>
        IF san.x = None \/ san.x = <<>>
        THEN san.once = None
        ELSE /\ san.once # None
             /\ san.once = Flatten([i \in 1..Len(san.x) |-> SanitizedChar(san.x[i])])
             /\ \A i \in 1..Len(san.once) :
                   san.once[i] \in Lower \cup Upper \cup Digit \cup {"_"}

\* C6 witness: a text with a diacritic, a space and punctuation was sanitized.
SanitizedMixedText ==
    /\ san.stage = "once"
    /\ san.x = <<"U+00F1", " ", "!">>
    /\ san.once = <<"n", "_">>

\* The successful staging-sheet deletions of the run so far.
Deletions ==
    Len(values) - Len(sheet)

\* C7: after N successful staging-sheet deletions, the next deletion is
\* issued with index original_index - N, original_index being the row's index
\* in the sheet as fetched.
DeletionIndexInvariant ==
    RowDone =>
        \A e \in EffectsOf("delete_row") :
            e.index = processed[Len(processed)]
                         - (Deletions - (IF e.ok THEN 1 ELSE 0))

\* C7 witness: a deletion was issued, and succeeded, for a row of a sheet
\* that holds further rows.
DeletionIssued ==
    /\ RowDone
    /\ \E e \in EffectsOf("delete_row") : e.ok
    /\ Len(values) > 2

\* The data rows of the fetched queue: every row after the header.
DataRows ==
    IF values = <<>> THEN <<>> ELSE Tail(values)

\* C8: process_staging_data processes every data row of the fetched queue
\* exactly once, in order.
EveryRowProcessed ==
    pc \in {"exited", "done"} => processed = DataRows

\* The folder name the path rule gives a resolved Type/Specimen row.
ExpectedName(o) ==
    Replace(o.specimen_info.sciname, " ", <<"_">>)
        \o IdQualifier(o.specimen_info)
        \o <<"_","B","P","B","M">> \o Fmt(o.specimen_info.catalognumber)
        \o (IF Truthy(o.fields.specimennumber)
            THEN <<"_">> \o o.fields.specimennumber ELSE <<>>)

\* The subtype segment of a Specimen row.
SubtypeSegment(o) ==
    IF o.fields.imagetype = tSpecimen /\ Truthy(o.fields.specimentype)
    THEN <<o.fields.specimentype>> ELSE <<>>

\* C9: the path rule of Type/Specimen rows whose record resolves.
TypeSpecimenPathRule ==
    (/\ RowDone
     /\ last.fields.imagetype \in {tType, tSpecimen}
     /\ Resolved(last))
    => IF last.specimen_info.sciname \in {sGastropoda, sBivalvia}
       THEN last.destination_path
               = <<base_folder, last.fields.imagetype, last.specimen_info.sciname,
                   ExpectedName(last)>> \o SubtypeSegment(last)
       ELSE IF ~Truthy(last.specimen_info.family)
       THEN last.destination_path = NoPath /\ last.effects = <<>>
       ELSE last.destination_path
               = <<base_folder, last.fields.imagetype, sGastropoda,
                   last.specimen_info.family>>
                 \o (IF Truthy(last.subfamily) THEN <<last.subfamily>> ELSE <<>>)
                 \o <<ExpectedName(last)>> \o SubtypeSegment(last)

\* C9 witness: a Type row with no specimen number whose record has sciname
\* "Gastropoda" and catalog number 45 was given .../Type/Gastropoda/Gastropoda_BPBM45,
\* and the folder was created.
GastropodaExample ==
    /\ RowDone
    /\ last.fields.imagetype = tType
    /\ last.fields.specimennumber = <<>>
    /\ Resolved(last)
    /\ last.specimen_info.sciname = sGastropoda
    /\ last.specimen_info.catalognumber = <<"4","5">>
    /\ last.destination_path = <<base_folder, tType, sGastropoda, <<"G","a","s","t","r","o","p","o","d","a","_","B","P","B","M","4","5">>>>
    /\ \E e \in EffectsOf("create_folder") : e.path = last.destination_path

\* The subfamily of the first table, in the fixed order, that has a genus
\* fragment contained in the name.
FirstTable(sciname) ==
    IF \E g \in {<<"A","c","h","a","t","i","n","e","l","l","a">>, <<"N","e","w","c","o","m","b","i","a">>, <<"P","a","r","t","u","l","i","n","a">>, <<"P","e","r","d","i","c","e","l","l","a">>} :
          Contains(g, sciname)
    THEN sAchatinellinae
    ELSE IF \E g \in {<<"A","u","r","i","c","u","l","e","l","l","a">>, <<"G","u","l","i","c","k","i","a">>} : Contains(g, sciname)
    THEN sAuriculellinae
    ELSE IF \E g \in {<<"P","h","i","l","o","p","o","a">>, <<"T","o","r","n","a","t","e","l","l","a","r","i","a">>, <<"T","o","r","n","a","t","e","l","l","i","d","e","s">>} :
               Contains(g, sciname)
    THEN sTornatellidinae
    ELSE IF Contains(<<"E","l","a","s","m","i","a","s">>, sciname)
    THEN sTornatellininae
    ELSE IF \E g \in {<<"L","a","m","e","l","l","i","d","e","a">>, <<"P","a","c","i","f","i","c","e","l","l","a">>, <<"T","o","r","n","a","t","e","l","l","i","n","o","p","s">>} :
               Contains(g, sciname)
    THEN sPacificellinae
    ELSE None

SubfamilyNames ==
    {sAchatinellinae, sAuriculellinae, sTornatellidinae, sTornatellininae,
     sPacificellinae}

\* C10: for a Type, Specimen or Captive row whose record has family
\* Achatinellidae the subfamily is that of the first matching table and is
\* the path segment right after the family; for any other family there is no
\* subfamily and no subfamily segment.
AchatinellidaeRouting ==
    (/\ RowDone
     /\ last.fields.imagetype \in {tType, tSpecimen, tCaptive}
     /\ Resolved(last))
    => IF last.specimen_info.family = sAchatinellidae
       THEN /\ last.subfamily = FirstTable(last.specimen_info.sciname)
            /\ (Truthy(last.subfamily) /\ last.destination_path # NoPath) =>
                  \E i \in 1..(Len(last.destination_path) - 1) :
                      /\ last.destination_path[i] = sAchatinellidae
                      /\ last.destination_path[i + 1] = last.subfamily
       ELSE /\ last.subfamily = None
            /\ \A i \in 1..Len(last.destination_path) :
                  last.destination_path[i] \notin SubfamilyNames

\* C10 witness: a record of family Achatinellidae whose name holds genus
\* fragments of two tables was routed to the earlier table's subfamily.
TwoTableNameRouted ==
    /\ RowDone
    /\ last.fields.imagetype \in {tType, tSpecimen, tCaptive}
    /\ Resolved(last)
    /\ last.specimen_info.family = sAchatinellidae
    /\ Contains(<<"E","l","a","s","m","i","a","s">>, last.specimen_info.sciname)
    /\ Contains(<<"G","u","l","i","c","k","i","a">>, last.specimen_info.sciname)
    /\ last.subfamily = sAuriculellinae
    /\ \E i \in 1..(Len(last.destination_path) - 1) :
          /\ last.destination_path[i] = sAchatinellidae
          /\ last.destination_path[i + 1] = sAuriculellinae

\* The first omoccurrences row with the given field number, as a set (empty
\* when there is none).
FieldRecords(fieldnumber) ==
    {omoccurrences[i] : i \in {j \in 1..Len(omoccurrences) :
        /\ omoccurrences[j].fieldnumber = fieldnumber
        /\ \A h \in 1..(j - 1) : omoccurrences[h].fieldnumber # fieldnumber}}

\* The Field rule on one row's outcome and its location record.
FieldRule(o, r) ==
    IF \/ ~Truthy(clean_folder_name(r.country))
       \/ ~Truthy(clean_folder_name(r.stateProvince))
       \/ /\ ~Truthy(clean_folder_name(r.locality))
          /\ ~Truthy(clean_folder_name(r.municipality))
    THEN /\ o.destination_path = NoPath
         /\ o.effects = <<>>
         /\ created = {} /\ stored = {} /\ tracking = <<>>
    ELSE o.destination_path
            = <<base_folder, tField, clean_folder_name(r.country),
                clean_folder_name(r.stateProvince)>>
              \o (IF Truthy(clean_folder_name(r.island))
                  THEN <<clean_folder_name(r.island)>> ELSE <<>>)
              \o <<IF Truthy(clean_folder_name(r.municipality))
                   THEN clean_folder_name(r.municipality)
                   ELSE clean_folder_name(r.locality),
                   o.fields.fieldnumber>>

\* C11: a Field row with a location record is skipped, with no folder created
\* and no file moved, when the sanitized country or state is missing or both
\* the sanitized locality and municipality are missing; otherwise its path is
\* base/Field/country/state[/island]/(municipality, else locality)/fieldnumber.
FieldGating ==
    (RowDone /\ last.fields.imagetype = tField /\ last.outcome # "FolderMissing")
    => \A r \in FieldRecords(last.fields.fieldnumber) : FieldRule(last, r)

\* C11 witness: a Field row whose record has both a municipality and a
\* locality was given the municipality's folder, and the folder was created.
FieldMunicipalityPreferred ==
    /\ RowDone
    /\ last.fields.imagetype = tField
    /\ last.fields.fieldnumber = <<"F","4">>
    /\ last.destination_path
          = <<base_folder, tField, <<"M","e","x","i","c","o">>, <<"Y","u","c","a","t","a","n">>, <<"M","e","r","i","d","a">>, <<"F","4">>>>
    /\ \E e \in EffectsOf("create_folder") : e.path = last.destination_path

\* The chain rule on one Outreach row's outcome and the locals t of its
\* get_taxonomy_hierarchy call.
ChainRule(o, t) ==
    /\ AcceptChain(t.tax_dic) # NoDict =>
          /\ Len(t.tax_dic) > 2
          /\ Len(t.tax_dic) > Len(t.seeded)
    /\ t.tid = NoTid =>
          /\ AcceptChain(t.tax_dic) = NoDict
          /\ o.outcome = "NoTaxonomy"
          /\ o.effects = <<>>

\* C12: get_taxonomy_hierarchy returns a chain only when it has more than two
\* entries of which the ancestor walk contributed at least one; when no unit
\* id is found the result is None and the Outreach row is skipped.
ChainNeedsAncestorWalk ==
    (/\ RowDone
     /\ last.fields.imagetype = tOutreach
     /\ last.outcome # "FolderMissing"
     /\ Truthy(last.fields.taxon)
     /\ Truthy(last.fields.taxonrank))
    => ChainRule(last, TaxonomyTrace(last.fields.taxon, last.fields.taxonrank))

\* The path segments the code writes as literals.
ControlledSegments ==
    {base_folder, tType, tSpecimen, tCaptive, tField, tNonMollusk, tOutreach,
     <<"R","e","p","r","e","s","e","n","t","a","t","i","v","e","s">>, sGastropoda, sBivalvia}

\* The scientific names the store holds.
ScientificNames ==
    {taxa[i].sciname : i \in 1..Len(taxa)}
        \cup {omoccurrences[i].sciname : i \in 1..Len(omoccurrences)}
        \cup {omoccurrences[i].family : i \in 1..Len(omoccurrences)}
        \cup SubfamilyNames

\* A path all of whose segments are controlled, scientific names, or texts the
\* sanitizer leaves as they are.
SegmentsClean(path) ==
    \A i \in 1..Len(path) :
        \/ path[i] \in ControlledSegments
        \/ path[i] \in ScientificNames
        \/ clean_folder_name(path[i]) = path[i]

\* C13: every segment of a derived destination path, and of the Outreach
\* duplicate path, is a controlled constant, a scientific name or sanitized
\* text; no raw form or database text reaches a segment unsanitized.
SegmentsSanitized ==
    RowDone =>
        /\ SegmentsClean(last.destination_path)
        /\ \A e \in EffectsOf("copy_files") : SegmentsClean(e.path)

\* The row was processed to the end: its files moved, its staging folder
\* removed and its staging-sheet row deleted.
Succeeded(o) ==
    /\ o.outcome = "Moved"
    /\ \E k \in 1..Len(o.effects) : o.effects[k].op = "move_files" /\ o.effects[k].ok
    /\ \E k \in 1..Len(o.effects) : o.effects[k].op = "rmdir" /\ o.effects[k].ok
    /\ \E k \in 1..Len(o.effects) : o.effects[k].op = "delete_row" /\ o.effects[k].ok

\* C14: a TrackingRecord is appended exactly once for each successfully
\* processed row and for no other row; a row that ends in an error after its
\* path was derived has no TrackingRecord.
TrackingOnlyOnSuccess ==
    RowDone =>
        /\ Len(tracking) <= 1
        /\ tracking # <<>> => Succeeded(last)
        /\ (Succeeded(last) /\ \E e \in EffectsOf("append") : e.ok) =>
              tracking = <<last.record>>

\* The files of the staging folders, as a set of [folder, file] pairs.
StagedFiles(fs) ==
    UNION {{[folder |-> n, file |-> fl] : fl \in fs[n].files} : n \in DOMAIN fs}

\* C15: the staging folder of a row is deleted only if it is empty after the
\* move, the deletion of the row's staging-sheet entry is attempted only if
\* that folder deletion succeeded, and so a staging-sheet row is never
\* deleted while its staging folder still exists.
CleanupOrder ==
    [][processed' # processed =>
          /\ (\E k \in 1..Len(last'.effects) : last'.effects[k].op = "rmdir") =>
                /\ \E k \in 1..Len(last'.effects) :
                      last'.effects[k].op = "move_files" /\ last'.effects[k].ok
                /\ \A sf \in StagedFiles(folders) :
                      sf.folder = last'.fields.foldername =>
                         [path |-> last'.destination_path, file |-> sf.file] \in stored'
          /\ (\E k \in 1..Len(last'.effects) : last'.effects[k].op = "delete_row") =>
                \E k \in 1..Len(last'.effects) :
                    last'.effects[k].op = "rmdir" /\ last'.effects[k].ok
          /\ sheet' # sheet => last'.fields.foldername \notin DOMAIN folders'
          /\ DOMAIN folders' # DOMAIN folders =>
                DOMAIN folders' = DOMAIN folders \ {last'.fields.foldername}]_vars

\* C15 witness: a row's staging folder is gone, its files are at the
\* destination and its staging-sheet row is deleted.
StagingEntryCleanedUp ==
    /\ RowDone
    /\ Len(sheet) < Len(values)
    /\ last.fields.foldername \notin DOMAIN folders
    /\ \E st \in stored : st.path = last.destination_path

\* The operations of a row's effects, in call order.
OpsOf(o) ==
    [k \in 1..Len(o.effects) |-> o.effects[k].op]

\* The side effects of a row with a derived path, in the order of the
\* contract; the copy (into a folder made for it) for flagged Specimen rows only.
ContractOps(o) ==
    <<"create_folder", "append">>
        \o (IF o.fields.imagetype = tSpecimen /\ o.fields.outreachduplicate = sYes
            THEN <<"create_folder", "copy_files">> ELSE <<>>)
        \o <<"move_files", "rmdir", "delete_row">>

\* C16: for a row whose destination path is derived the side effects are, in
\* this order and no other: create the destination folder, append one
\* TrackingRecord, copy to the Outreach path iff the row is a Specimen row
\* flagged "Yes", move the files, delete the staging folder, delete the
\* staging-sheet row; the sequence is cut short only by a failed step.
SideEffectOrder ==
    (RowDone /\ last.destination_path # NoPath) =>
        /\ Len(OpsOf(last)) <= Len(ContractOps(last))
        /\ OpsOf(last) = SubSeq(ContractOps(last), 1, Len(OpsOf(last)))
        /\ (\A k \in 1..Len(last.effects) :
               last.effects[k].op \in {"move_files", "rmdir"} => last.effects[k].ok)
           => OpsOf(last) = ContractOps(last)

\* The ranks for which the family is looked up through the occurrence table.
FamilyLookupRanks ==
    {rGenus, rSpecies, rSubspecies, rSubfamily, rFamily}

\* The fallback rule on the locals t of get_taxonomy_hierarchy(taxon, taxonrank).
FallbackRule(taxon, taxonrank, t) ==
    /\ t.genusRuns <=> (taxonrank \in {rSpecies, rSubspecies} /\ TidOf(taxon) = NoTid)
    /\ t.familyRuns <=>
          /\ taxonrank \in FamilyLookupRanks
          /\ TidOf(taxon) = NoTid
          /\ t.genusRuns => TidOf(FirstToken(taxon)) = NoTid
    /\ TidOf(taxon) # NoTid => t.tid = TidOf(taxon)
    /\ (t.genusRuns /\ ~t.familyRuns) => t.tid = TidOf(FirstToken(taxon))
    /\ (~t.genusRuns /\ ~t.familyRuns) => t.tid = TidOf(taxon)
    /\ (DictHas(t.seeded, rGenus) /\ taxonrank # rGenus) => t.genusRuns
    /\ (DictHas(t.seeded, rFamily) /\ taxonrank # rFamily) => t.familyRuns
    /\ t.tid = NoTid => t.tax_dic = t.seeded
    /\ t.tid # NoTid =>
          \A j \in 1..Len(AncestorRows(t.tid)) :
              DictHas(t.tax_dic, AncestorRows(t.tid)[j].rankname)
    /\ Len(t.tax_dic) >= Len(t.seeded)
    /\ \A i \in 1..Len(t.seeded) : t.tax_dic[i] = t.seeded[i]
    /\ \A i, j \in 1..Len(t.tax_dic) : t.tax_dic[i].rank = t.tax_dic[j].rank => i = j
    /\ \A i \in (Len(t.seeded) + 1)..Len(t.tax_dic) :
          \E j \in 1..Len(AncestorRows(t.tid)) :
              /\ AncestorRows(t.tid)[j].rankname = t.tax_dic[i].rank
              /\ AncestorRows(t.tid)[j].sciname = t.tax_dic[i].name
              /\ \A h \in 1..(j - 1) :
                    AncestorRows(t.tid)[h].rankname # t.tax_dic[i].rank

\* The family an Outreach row takes from its resolved chain.
FamilyFromChain(o, t) ==
    AcceptChain(t.tax_dic) # NoDict => o.family = DictGet(t.tax_dic, rFamily, <<>>)

\* C17: get_taxonomy_hierarchy is an ordered fallback that stops at the first
\* success: the genus lookup only for Species/Subspecies with no unit id from
\* the direct lookup; the family lookup only for Genus, Species, Subspecies,
\* Subfamily, Family with no unit id yet; the ancestor walk iff a unit id was
\* found, keeping the first value per rank and never replacing a rank present.
OrderedFallback ==
    (/\ RowDone
     /\ last.fields.imagetype = tOutreach
     /\ last.outcome # "FolderMissing"
     /\ Truthy(last.fields.taxon)
     /\ Truthy(last.fields.taxonrank))
    => /\ FallbackRule(last.fields.taxon, last.fields.taxonrank,
                       TaxonomyTrace(last.fields.taxon, last.fields.taxonrank))
       /\ FamilyFromChain(last,
                          TaxonomyTrace(last.fields.taxon, last.fields.taxonrank))

\* C17 witness: an Outreach row that names a genus with rank Family kept the
\* supplied Family entry although the walk met the family Achatinellidae, and
\* took its class from the walk.
SeededRankKept ==
    /\ RowDone
    /\ last.fields.imagetype = tOutreach
    /\ last.fields.taxon = <<"A","c","h","a","t","i","n","e","l","l","a">>
    /\ last.fields.taxonrank = rFamily
    /\ last.family = <<"A","c","h","a","t","i","n","e","l","l","a">>
    /\ last.destination_path
          = <<base_folder, tOutreach, sGastropoda, <<"A","c","h","a","t","i","n","e","l","l","a">>, <<"A","c","h","a","t","i","n","e","l","l","a">>>>

\* The lookups of a row that are made by the given key.
LookupsBy(o, fn) ==
    {k \in 1..Len(o.lookups) : o.lookups[k].fn = fn}

\* The number of specimen rows that carry a specimen number.
SpecimenMatches(specimennumber) ==
    Cardinality({i \in 1..Len(spcollectionspecimen) :
                    spcollectionspecimen[i].specimennumber = specimennumber})

\* C18: for a Type or Specimen row the keys supplied choose the lookup: with a
\* specimen number the catalog-number lookup is never made, and a specimen
\* number that matches zero or several records has the row skipped, counted
\* as an error and without side effect, whatever its catalog number; the
\* catalog-number lookup is made only when the specimen number is empty.
LookupByKeysSupplied ==
    [][(/\ processed' # processed
        /\ last'.fields.imagetype \in {tType, tSpecimen}
        /\ last'.outcome # "FolderMissing") =>
          /\ Truthy(last'.fields.specimennumber) =>
                /\ LookupsBy(last', "catalognumber") = {}
                /\ LookupsBy(last', "specimennumber") = {1}
                /\ SpecimenMatches(last'.fields.specimennumber) # 1 =>
                      /\ last'.outcome = "NoRecord"
                      /\ error_folders_count' = error_folders_count + 1
                      /\ last'.effects = <<>>
                      /\ created' = created /\ stored' = stored
                      /\ tracking' = tracking /\ folders' = folders
                      /\ sheet' = sheet
          /\ LookupsBy(last', "catalognumber") # {} =>
                ~Truthy(last'.fields.specimennumber)
          /\ (~Truthy(last'.fields.specimennumber)
                /\ Truthy(last'.fields.catalognumber)) =>
                LookupsBy(last', "catalognumber") = {1}]_vars

\* C18 witness: a Type/Specimen row whose specimen number matches two records
\* was skipped and counted although its catalog number is that of exactly one
\* record.
SkippedDespiteCatalog ==
    /\ RowDone
    /\ last.fields.imagetype \in {tType, tSpecimen}
    /\ last.fields.specimennumber = <<"D","1">>
    /\ last.fields.catalognumber = <<"B","P","B","M","4","5">>
    /\ get_specimen_info_by_catalog_number(<<"B","P","B","M","4","5">>).outcome = "Found"
    /\ last.outcome = "NoRecord"
    /\ error_folders_count = 1
    /\ created = {}

\* The seven image categories.
KnownCategories ==
    {tType, tSpecimen, tCaptive, tField, tNonMollusk, tOutreach,
     tRepresentativePlate}

\* C19: a row whose image category is none of the seven causes no side
\* effect (no folder created, no record appended, no file moved or copied, no
\* staging deletion) and adds exactly one to error_folders_count.
UnknownCategoryCounted ==
    [][(processed' # processed /\ last'.fields.imagetype \notin KnownCategories) =>
          /\ last'.effects = <<>>
          /\ last'.destination_path = NoPath
          /\ created' = created
          /\ stored' = stored
          /\ tracking' = tracking
          /\ folders' = folders
          /\ sheet' = sheet
          /\ moved_folders_count' = moved_folders_count
          /\ error_folders_count' = error_folders_count + 1]_vars

\* C19 witness: a row of an unknown category whose staging folder exists
\* reached create_folder with no destination path and was counted.
UnknownCategoryRaised ==
    /\ RowDone
    /\ last.fields.imagetype = <<"O","t","h","e","r">>
    /\ last.fields.foldername \in DOMAIN folders
    /\ last.outcome = "UnboundLocalError:destination_path"
    /\ error_folders_count = 1
    /\ created = {}

\* The sheet without the row of the given id.
SheetWithout(sh, id) ==
    SelectSeq(sh, LAMBDA r : r # id)

\* C20: whenever process_image_row requests the deletion of a staging-sheet
\* row, the index it passes is the current position in the sheet of the row
\* being processed, never the header (index 0) and never another row; a
\* successful request removes that row and nothing else.
DeletionNamesCurrentRow ==
    [][processed' # processed =>
          \A k \in 1..Len(last'.effects) :
              last'.effects[k].op = "delete_row" =>
                 /\ last'.effects[k].index # 0
                 /\ last'.effects[k].index + 1 <= Len(sheet)
                 /\ sheet[last'.effects[k].index + 1] = processed'[Len(processed')]
                 /\ last'.effects[k].ok =>
                       /\ sheet' = SheetWithout(sheet, processed'[Len(processed')])
                       /\ sheet'[1] = 0
                 /\ ~last'.effects[k].ok => sheet' = sheet]_vars

\* C20 witness: the row being processed was deleted from a sheet that holds
\* another data row; the header and the other row are still there.
CurrentRowDeleted ==
    /\ RowDone
    /\ Len(values) = 3
    /\ \E e \in EffectsOf("delete_row") : e.ok /\ e.index = 1
    /\ sheet = <<values[1], values[3]>>

=============================================================================
